---- MODULE Spec2Model ----
(***************************************************************************)
(* Model of Model/Trainer.py: the Trainer session (generator,              *)
(* discriminator, two Adam optimisers, BCELoss criterion, Epoch and        *)
(* GlobalStep counters, the preallocated Label buffer, the SummaryWriter)  *)
(* with its operations train, validate, checkpoint, loadFrom, setMode,     *)
(* advanceEpoch and shiftTarget.                                           *)
(*                                                                         *)
(* Tensors are abstracted: network parameters and optimiser state are      *)
(* counters of applied updates, gradients are sets of the backward passes  *)
(* that deposited into them, a time axis is a sequence of time indices, a  *)
(* mask is the lengths of its time dimensions.                             *)
(***************************************************************************)
EXTENDS Integers, Sequences, FiniteSets, TLC

\* ------------------------------------------------------------------------
\* Program constants
\* ------------------------------------------------------------------------
FAKE_LABEL == 0
REAL_LABEL == 1
INFERENCE == 0
TRAIN == 255

\* TrainingSetting.BATCH_SIZE: capacity of the Label buffer.
BATCH_SIZE == 2
\* TrainingSetting.LOG_FREQUENCY
LOG_FREQUENCY == 2
\* Time length of the target tensors the data loader yields.
TimeLen == 5
\* Time steps in one time window.
TimeWindow == 2

\* ------------------------------------------------------------------------
\* Bounds of the model
\* ------------------------------------------------------------------------
\* batches one train()/validate() call may draw from its data loader
MaxBatches == 3
\* operations (train, validate, setMode, advanceEpoch, checkpoint, loadFrom)
\* called in one run
MaxOps == 3
\* direct calls of shiftTarget in one run
MaxShifts == 3

LogNames == {"runA", "runB"}
ModelNames == {"m"}
\* batch sizes the data loader may yield (one above the capacity included)
BatchSizes == 1..(BATCH_SIZE + 1)
Modes == {INFERENCE, TRAIN}
NoSession == [LogName |-> "none"]

VARIABLES
    session,      \* the Trainer object under study
    loaded,       \* the Trainer returned by loadFrom, or NoSession
    disk,         \* files under MODEL_OUTPUT_PATH: file name -> archive
    clock,        \* wall clock, in seconds
    \* bookkeeping, read by no operation
    ops,          \* operations called so far
    fetched,      \* batches train() has taken from its data loaders
    advances,     \* advanceEpoch() calls made
    requested,    \* argument of the last setMode(), or -1
    history,      \* the session as it was at each checkpoint() call
    fileVer,      \* file name -> index in history of the call that wrote it
    resume,       \* how `loaded` came about: see LoadFrom and Resume
    shift         \* a direct call of shiftTarget: its arguments and results

vars == <<session, loaded, disk, clock,
          ops, fetched, advances, requested, history, fileVer, resume, shift>>

Min(a, b) == IF a <= b THEN a ELSE b

\* ------------------------------------------------------------------------
\* Tensor helpers: Python slicing and in-place fill
\* ------------------------------------------------------------------------
\* seq[:n], n >= 0: slicing clamps to the length, it never raises
SliceTo(seq, n) == SubSeq(seq, 1, Min(n, Len(seq)))
\* seq[:-k], k > 0
DropLast(seq, k) == SubSeq(seq, 1, Len(seq) - k)
\* seq[k:]
DropFirst(seq, k) == SubSeq(seq, k + 1, Len(seq))
\* length of a dimension of length n sliced [:-k]
DimDropLast(n, k) == IF n > k THEN n - k ELSE 0

\* a fill that writes the whole buffer, not the view
FillWholeBuffer(buffer, n, v) == [k \in 1..Len(buffer) |-> v]

\* label.fill_(v) on the view Label[:n]: writes through to the buffer
Fill(buffer, n, v) == [k \in 1..Len(buffer) |-> IF k <= n THEN v ELSE buffer[k]]

\* ------------------------------------------------------------------------
\* shiftTarget
\* ------------------------------------------------------------------------
\* DataUtility: the time steps, and the mask entries, that n time windows span
calcTimeStepLength(n) == n * TimeWindow
calcSequenceLength(n) == n * TimeWindow

windowSkip == calcTimeStepLength(1)
sequenceSkip == calcSequenceLength(1)

\* a target tensor, along its time axis: the time indices 1..TimeLen
Target == [t \in 1..TimeLen |-> t]
\* a mask as the batch source builds it for a target of time length T: the
\* columns of the padding mask, the rows and columns of the attention mask
MaskFor(T) == [TargetPadding |-> T, TargetAttention |-> <<T, T>>]
\* the mask of a batch whose target is Target
NewMask == MaskFor(TimeLen)

\* no batch has been unpacked yet
NoMask == [TargetPadding |-> -1, TargetAttention |-> <<-1, -1>>]

\* a slicing that cuts the rows of the attention mask and not its columns
ShiftMaskRowsOnly(m) ==
    [TargetPadding |-> DimDropLast(m.TargetPadding, sequenceSkip),
     TargetAttention |-> <<DimDropLast(m.TargetAttention[1], sequenceSkip),
                           m.TargetAttention[2]>>]

\* the mask after shiftTarget has sliced it in place
ShiftMask(m) ==
    [TargetPadding |-> DimDropLast(m.TargetPadding, sequenceSkip),
     TargetAttention |-> <<DimDropLast(m.TargetAttention[1], sequenceSkip),
                           DimDropLast(m.TargetAttention[2], sequenceSkip)>>]

\* a shift by a single time step, whatever the window is
shiftTargetByOneStep(target) == <<DropLast(target, 1), DropFirst(target, 1)>>

\* the pair shiftTarget returns: (target[:, :-windowSkip, :], target[:, windowSkip:, :])
shiftTarget(target) == <<DropLast(target, windowSkip), DropFirst(target, windowSkip)>>

\* the values of a target tensor at one time step
Notes == {0, 1}
\* the target tensors of time length 1..TimeLen, along their time axis
Targets == UNION {[1..T -> Notes] : T \in 1..TimeLen}

\* a direct call of shiftTarget: its two arguments, the pair it returned last,
\* and, as bookkeeping, the calls made and the calls the mask object has been
\* through
NoShift ==
    [target |-> <<>>, mask |-> NoMask, input |-> <<>>, expected |-> <<>>,
     calls |-> 0, passes |-> 0]
GivenShift(target) ==
    [NoShift EXCEPT !.target = target, !.mask = MaskFor(Len(target))]

\* a shiftTarget that slices a copy of the mask and leaves the caller's alone
CallShiftTargetOnACopy(c) ==
    [c EXCEPT !.input = shiftTarget(c.target)[1],
              !.expected = shiftTarget(c.target)[2],
              !.calls = @ + 1,
              !.passes = @ + 1]

\* shiftTarget(target, mask_ref): slices the mask in place, returns the pair
CallShiftTarget(c) ==
    [c EXCEPT !.mask = ShiftMask(@),
              !.input = shiftTarget(c.target)[1],
              !.expected = shiftTarget(c.target)[2],
              !.calls = @ + 1,
              !.passes = @ + 1]

\* ------------------------------------------------------------------------
\* Construction
\* ------------------------------------------------------------------------
\* a torch module as constructed: no gradient, training flag set
NewNetwork == [params |-> 0, grad |-> {}, training |-> TRUE]
NewOptimiser == [steps |-> 0]
NoLoss == <<"none", -1>>

\* the locals of train(), validate() and checkpoint(); out of a call they
\* hold nothing
IdleFrame ==
    [op |-> "none", pc |-> "idle", i |-> -1, batchSize |-> 0, labelLen |-> 0,
     model_name |-> "none", time |-> -1,
     mask |-> NoMask, realInput |-> <<>>, realExpected |-> <<>>,
     err_real |-> NoLoss, err_fake |-> NoLoss,
     err_discriminator |-> {}, err_generator |-> NoLoss]

\* Trainer.__init__
NewTrainer(log_name) ==
    [LogName |-> log_name,
     Summary |-> [records |-> <<>>, flushed |-> TRUE],
     Generator |-> NewNetwork,
     Discriminator |-> NewNetwork,
     GeneratorOptimiser |-> NewOptimiser,
     DiscriminatorOptimiser |-> NewOptimiser,
     Epoch |-> 0,
     GlobalStep |-> 0,
     Criterion |-> <<>>,
     Label |-> [k \in 1..BATCH_SIZE |-> 0],
     calls |-> 0,
     frame |-> IdleFrame]

\* ------------------------------------------------------------------------
\* torch operations used by train() and validate()
\* ------------------------------------------------------------------------
\* module.zero_grad()
ZeroGrad(net) == [net EXCEPT !.grad = {}]

\* optimiser.step(): updates the parameters that hold a gradient
StepParams(net) == IF net.grad = {} THEN net ELSE [net EXCEPT !.params = @ + 1]
StepOptimiser(opt, net) == IF net.grad = {} THEN opt ELSE [opt EXCEPT !.steps = @ + 1]

\* BCELoss rejects a target whose size differs from the input's
CriterionAccepts(scoreLen, labelLen) == scoreLen = labelLen

\* the loss the criterion computes from a score and the label view's constant
Criterion(scoreName, s) == <<scoreName, s.Label[1]>>

\* what a backward pass deposits in a network's gradient
Deposit(lossName, s) ==
    [loss |-> lossName, step |-> s.GlobalStep, through |-> s.Discriminator.params]

\* an exception leaves train()/validate(): nothing catches it
Raise(s) == [s EXCEPT !.frame.pc = "error"]

\* add_scalars keyed by the batch index of the call instead of the global step
AddScalarsKeyedByIndex(s, tag, scalars) ==
    [s EXCEPT !.Summary =
        [records |-> Append(@.records,
                        [tag |-> tag, scalars |-> scalars, step |-> s.frame.i,
                         index |-> s.frame.i, call |-> s.calls]),
         flushed |-> FALSE]]

\* SummaryWriter.add_scalars(tag, scalars, global_step); index and call are
\* bookkeeping: the batch index and the call that emitted the record
AddScalars(s, tag, scalars) ==
    [s EXCEPT !.Summary =
        [records |-> Append(@.records,
                        [tag |-> tag, scalars |-> scalars, step |-> s.GlobalStep,
                         index |-> s.frame.i, call |-> s.calls]),
         flushed |-> FALSE]]

\* ------------------------------------------------------------------------
\* train(): one operator per statement group of the loop body
\* ------------------------------------------------------------------------
\* entering train() or validate()
Enter(s, op, pc) ==
    [s EXCEPT !.calls = @ + 1, !.frame = [IdleFrame EXCEPT !.op = op, !.pc = pc]]

\* the data loader is exhausted: the call returns
Return(s) == [s EXCEPT !.frame = IdleFrame]

\* for i, data in enumerate(dataLoader): unpack the batch (b items, with a
\* mask object that is new, or the one yielded last), shiftTarget, batchSize,
\* label slice
NextBatch(s, b, fresh, pc) ==
    [s EXCEPT !.frame.i = @ + 1,
              !.frame.mask = ShiftMask(IF fresh THEN NewMask ELSE @),
              !.frame.realInput = shiftTarget(Target)[1],
              !.frame.realExpected = shiftTarget(Target)[2],
              !.frame.batchSize = b,
              !.frame.labelLen = Len(SliceTo(s.Label, b)),
              !.frame.pc = pc]

\* label.fill_(v)
FillLabel(s, v, pc) ==
    [s EXCEPT !.Label = Fill(@, s.frame.labelLen, v), !.frame.pc = pc]

\* the discriminator phase opening with a clear of the generator's gradients
DiscZeroGradOfGenerator(s) ==
    [s EXCEPT !.Generator = ZeroGrad(@), !.frame.pc = "t_fill_real"]

\* this.Discriminator.zero_grad()
DiscZeroGrad(s) ==
    [s EXCEPT !.Discriminator = ZeroGrad(@), !.frame.pc = "t_fill_real"]

\* score = D(normaliseNote(realExpected)); err_real = Criterion(score, label);
\* err_real.backward()
ErrReal(s) ==
    IF ~CriterionAccepts(s.frame.batchSize, s.frame.labelLen) THEN Raise(s)
    ELSE [s EXCEPT !.frame.err_real = Criterion("D(x)", s),
                   !.Discriminator.grad = @ \cup {Deposit("err_real", s)},
                   !.frame.pc = "t_fill_fake"]

\* the fake loss taken on the generator's output itself, not detached: its
\* backward pass runs on into the generator
ErrFakeNotDetached(s) ==
    IF ~CriterionAccepts(s.frame.batchSize, s.frame.labelLen) THEN Raise(s)
    ELSE [s EXCEPT !.frame.err_fake = Criterion("D(G(z1))", s),
                   !.frame.err_discriminator =
                        {s.frame.err_real, Criterion("D(G(z1))", s)},
                   !.Discriminator.grad = @ \cup {Deposit("err_fake", s)},
                   !.Generator.grad = @ \cup {Deposit("err_fake", s)},
                   !.frame.pc = "t_d_step"]

\* generated = G(fake, realInput, mask); score = D(generated.detach());
\* err_fake = Criterion(score, label); err_fake.backward();
\* err_discriminator = err_real + err_fake
ErrFake(s) ==
    IF ~CriterionAccepts(s.frame.batchSize, s.frame.labelLen) THEN Raise(s)
    ELSE [s EXCEPT !.frame.err_fake = Criterion("D(G(z1))", s),
                   !.frame.err_discriminator =
                        {s.frame.err_real, Criterion("D(G(z1))", s)},
                   !.Discriminator.grad = @ \cup {Deposit("err_fake", s)},
                   !.frame.pc = "t_d_step"]

\* the discriminator phase ending with a step of the generator's optimiser
DiscStepOfGeneratorOptimiser(s) ==
    [s EXCEPT !.Generator = StepParams(@),
              !.GeneratorOptimiser = StepOptimiser(@, s.Generator),
              !.frame.pc = "t_g_zero"]

\* this.DiscriminatorOptimiser.step()
DiscStep(s) ==
    [s EXCEPT !.Discriminator = StepParams(@),
              !.DiscriminatorOptimiser = StepOptimiser(@, s.Discriminator),
              !.frame.pc = "t_g_zero"]

\* this.Generator.zero_grad()
GenZeroGrad(s) ==
    [s EXCEPT !.Generator = ZeroGrad(@), !.frame.pc = "t_fill_inv"]

\* score = D(generated); err_generator = Criterion(score, label);
\* err_generator.backward(): the graph runs through both networks
ErrGenerator(s) ==
    IF ~CriterionAccepts(s.frame.batchSize, s.frame.labelLen) THEN Raise(s)
    ELSE [s EXCEPT !.frame.err_generator = Criterion("D(G(z2))", s),
                   !.Generator.grad = @ \cup {Deposit("err_generator", s)},
                   !.Discriminator.grad = @ \cup {Deposit("err_generator", s)},
                   !.frame.pc = "t_g_step"]

\* this.GeneratorOptimiser.step()
GenStep(s) ==
    [s EXCEPT !.Generator = StepParams(@),
              !.GeneratorOptimiser = StepOptimiser(@, s.Generator),
              !.frame.pc = "t_log"]

TrainScalars(s) ==
    ("Loss(D)" :> s.frame.err_discriminator) @@
    ("Loss(G)" :> {s.frame.err_generator}) @@
    ("D(x)" :> {<<"D(x)", -1>>}) @@
    ("D(G(z1))" :> {<<"D(G(z1))", -1>>}) @@
    ("D(G(z2))" :> {<<"D(G(z2))", -1>>})

\* if i % LOG_FREQUENCY == 0: add_scalars(...)
LogsAt(i) == i % LOG_FREQUENCY = 0

\* the logging block with the step counted only when the batch logged
TrainLogCountsLogged(s) ==
    IF LogsAt(s.frame.i)
    THEN [AddScalars(s, "train", TrainScalars(s)) EXCEPT !.GlobalStep = @ + 1,
                                                         !.frame.pc = "t_next"]
    ELSE [s EXCEPT !.frame.pc = "t_next"]

\* the logging block gated by the global step instead of the batch index
TrainLogByGlobalStep(s) ==
    LET logged == IF LogsAt(s.GlobalStep) THEN AddScalars(s, "train", TrainScalars(s)) ELSE s
    IN  [logged EXCEPT !.GlobalStep = @ + 1, !.frame.pc = "t_next"]

\* the logging block and this.GlobalStep += 1
TrainLog(s) ==
    LET logged == IF LogsAt(s.frame.i) THEN AddScalars(s, "train", TrainScalars(s)) ELSE s
    IN  [logged EXCEPT !.GlobalStep = @ + 1, !.frame.pc = "t_next"]

\* ------------------------------------------------------------------------
\* validate(): under torch.no_grad(), nothing is deposited in a gradient
\* ------------------------------------------------------------------------
\* score = D(normaliseNote(realExpected)); err_discriminator = Criterion(score, label)
ValDisc(s) ==
    IF ~CriterionAccepts(s.frame.batchSize, s.frame.labelLen) THEN Raise(s)
    ELSE [s EXCEPT !.frame.err_discriminator = {Criterion("D(x)", s)},
                   !.frame.pc = "v_fill_fake"]

\* generated = G(fake, realInput, mask); score = D(generated);
\* err_generator = Criterion(score, label)
ValGen(s) ==
    IF ~CriterionAccepts(s.frame.batchSize, s.frame.labelLen) THEN Raise(s)
    ELSE [s EXCEPT !.frame.err_generator = Criterion("D(G(z))", s),
                   !.frame.pc = "v_log"]

ValScalars(s) ==
    ("Loss(D)" :> s.frame.err_discriminator) @@
    ("Loss(G)" :> {s.frame.err_generator}) @@
    ("D(x)" :> {<<"D(x)", -1>>}) @@
    ("D(G(z))" :> {<<"D(G(z))", -1>>})

\* the logging block of validate() with the step counted as train() does
ValLogCountsStep(s) ==
    LET logged == IF LogsAt(s.frame.i) THEN AddScalars(s, "validation", ValScalars(s)) ELSE s
    IN  [logged EXCEPT !.GlobalStep = @ + 1, !.frame.pc = "v_next"]

\* the logging block of validate()
ValLog(s) ==
    LET logged == IF LogsAt(s.frame.i) THEN AddScalars(s, "validation", ValScalars(s)) ELSE s
    IN  [logged EXCEPT !.frame.pc = "v_next"]

\* ------------------------------------------------------------------------
\* checkpoint, loadFrom, setMode, advanceEpoch
\* ------------------------------------------------------------------------
\* module.state_dict() holds the parameters: neither gradients nor the training flag
StateDict(net) == [params |-> net.params]
LoadStateDict(net, sd) == [net EXCEPT !.params = sd.params]

\* datetime.today().strftime("%Y-%m-%d_%H-%M-%S"): the clock, to the second
Timestamp(now) == now
\* checkpointPath + '/' + model_name + '-' + time + ".tar"
FileName(model_name, time) == <<model_name, time>>

\* the dictionary checkpoint() hands to torch.save
Archive(s) ==
    [log_name |-> s.LogName,
     generator |-> StateDict(s.Generator),
     discriminator |-> StateDict(s.Discriminator),
     generator_optimiser |-> s.GeneratorOptimiser,
     discriminator_optimiser |-> s.DiscriminatorOptimiser,
     epoch |-> s.Epoch,
     global_step |-> s.GlobalStep,
     criterion |-> s.Criterion]

\* this.Summary.flush()
Flush(s) == [s EXCEPT !.Summary.flushed = TRUE]

\* torch.save(obj, path): creates the file or replaces its content
Save(files, path, obj) == (path :> obj) @@ files

\* checkpoint() that reads the time and does not flush the metrics sink
checkpointUnflushed(s, model_name, now) ==
    [s EXCEPT !.frame.op = "checkpoint", !.frame.pc = "c_save",
              !.frame.model_name = model_name,
              !.frame.time = Timestamp(now)]

\* checkpoint() down to this.Summary.flush(): the time is read, the sink
\* flushed; torch.save is next
checkpoint(s, model_name, now) ==
    [Flush(s) EXCEPT !.frame.op = "checkpoint", !.frame.pc = "c_save",
                     !.frame.model_name = model_name,
                     !.frame.time = Timestamp(now)]

\* the file checkpoint() is about to write
checkpointFile(s) == FileName(s.frame.model_name, s.frame.time)

\* loadFrom that leaves the step counter as the constructor set it
loadFromKeepsFreshStep(model) ==
    LET trainer == NewTrainer(model.log_name)
    IN  [trainer EXCEPT
            !.Generator = LoadStateDict(@, model.generator),
            !.Discriminator = LoadStateDict(@, model.discriminator),
            !.GeneratorOptimiser = model.generator_optimiser,
            !.DiscriminatorOptimiser = model.discriminator_optimiser,
            !.Epoch = model.epoch,
            !.Criterion = model.criterion]

\* loadFrom that leaves the epoch counter as the constructor set it
loadFromKeepsFreshEpoch(model) ==
    LET trainer == NewTrainer(model.log_name)
    IN  [trainer EXCEPT
            !.Generator = LoadStateDict(@, model.generator),
            !.Discriminator = LoadStateDict(@, model.discriminator),
            !.GeneratorOptimiser = model.generator_optimiser,
            !.DiscriminatorOptimiser = model.discriminator_optimiser,
            !.GlobalStep = model.global_step,
            !.Criterion = model.criterion]

\* Trainer.loadFrom on the archive torch.load returns
loadFrom(model) ==
    LET trainer == NewTrainer(model.log_name)
    IN  [trainer EXCEPT
            !.Generator = LoadStateDict(@, model.generator),
            !.Discriminator = LoadStateDict(@, model.discriminator),
            !.GeneratorOptimiser = model.generator_optimiser,
            !.DiscriminatorOptimiser = model.discriminator_optimiser,
            !.Epoch = model.epoch,
            !.GlobalStep = model.global_step,
            !.Criterion = model.criterion]

\* setMode whose INFERENCE case switches the generator only
setModeGeneratorOnly(s, mode) ==
    CASE mode = INFERENCE -> [s EXCEPT !.Generator.training = FALSE]
      [] mode = TRAIN ->
            [s EXCEPT !.Generator.training = TRUE, !.Discriminator.training = TRUE]
      [] OTHER -> s

\* Trainer.setMode
setMode(s, mode) ==
    CASE mode = INFERENCE ->
            [s EXCEPT !.Generator.training = FALSE, !.Discriminator.training = FALSE]
      [] mode = TRAIN ->
            [s EXCEPT !.Generator.training = TRUE, !.Discriminator.training = TRUE]
      [] OTHER -> s

\* advanceEpoch that also starts the step counter over
advanceEpochResetsStep(s) == [s EXCEPT !.Epoch = @ + 1, !.GlobalStep = 0]

\* Trainer.advanceEpoch
advanceEpoch(s) == [s EXCEPT !.Epoch = @ + 1]

\* ------------------------------------------------------------------------
\* The state machine
\* ------------------------------------------------------------------------
\* ver: index in history of the checkpoint() call whose file was loaded;
\* follow: the caller drives `loaded` alongside the session; modeSet: setMode
\* has been called since; base: records the session had emitted at the load
NoResume == [ver |-> 0, follow |-> FALSE, modeSet |-> FALSE, base |-> 0]

InitSession ==
    /\ session \in {NewTrainer(n) : n \in LogNames}
    /\ loaded = NoSession
    /\ disk = <<>>
    /\ clock = 0
    /\ ops = 0
    /\ fetched = 0
    /\ advances = 0
    /\ requested = -1
    /\ history = <<>>
    /\ fileVer = <<>>
    /\ resume = NoResume

Init ==
    /\ InitSession
    /\ shift = NoShift

\* The caller applies an operation to the session and, when it drives a
\* resumed session alongside (resume.follow), the same operation to that one:
\* s and l are the operation's results on the one and on the other.
Drive(s, l) ==
    /\ session' = s
    /\ loaded' = IF resume.follow THEN l ELSE loaded

At(pc) == session.frame.pc = pc
Idle == At("idle")

\* the caller starts an operation: only between two calls, the program being
\* single-threaded
Call ==
    /\ Idle
    /\ ops < MaxOps
    /\ ops' = ops + 1

\* train(dataLoader) is called
Train ==
    /\ Call
    /\ Drive(Enter(session, "train", "t_next"),
              Enter(loaded, "train", "t_next"))
    /\ UNCHANGED <<shift, disk, clock, fetched, advances, requested, history, fileVer, resume>>

\* the loader yields a batch
TrainNextBatch ==
    /\ At("t_next")
    /\ session.frame.i + 1 < MaxBatches
    /\ \E b \in BatchSizes, fresh \in BOOLEAN :
        /\ fresh \/ session.frame.mask # NoMask
        /\ Drive(NextBatch(session, b, fresh, "t_d_zero"),
              NextBatch(loaded, b, fresh, "t_d_zero"))
    /\ fetched' = fetched + 1
    /\ UNCHANGED <<shift, ops, disk, clock, advances, requested, history, fileVer, resume>>

\* the loader is exhausted
TrainReturn ==
    /\ At("t_next")
    /\ Drive(Return(session), Return(loaded))
    /\ UNCHANGED <<shift, ops, disk, clock, fetched, advances, requested, history, fileVer, resume>>

TrainDiscZeroGrad ==
    /\ At("t_d_zero")
    /\ Drive(DiscZeroGrad(session), DiscZeroGrad(loaded))
    /\ UNCHANGED <<shift, ops, disk, clock, fetched, advances, requested, history, fileVer, resume>>

TrainFillReal ==
    /\ At("t_fill_real")
    /\ Drive(FillLabel(session, REAL_LABEL, "t_err_real"),
              FillLabel(loaded, REAL_LABEL, "t_err_real"))
    /\ UNCHANGED <<shift, ops, disk, clock, fetched, advances, requested, history, fileVer, resume>>

TrainErrReal ==
    /\ At("t_err_real")
    /\ Drive(ErrReal(session), ErrReal(loaded))
    /\ UNCHANGED <<shift, ops, disk, clock, fetched, advances, requested, history, fileVer, resume>>

TrainFillFake ==
    /\ At("t_fill_fake")
    /\ Drive(FillLabel(session, FAKE_LABEL, "t_err_fake"),
              FillLabel(loaded, FAKE_LABEL, "t_err_fake"))
    /\ UNCHANGED <<shift, ops, disk, clock, fetched, advances, requested, history, fileVer, resume>>

TrainErrFake ==
    /\ At("t_err_fake")
    /\ Drive(ErrFake(session), ErrFake(loaded))
    /\ UNCHANGED <<shift, ops, disk, clock, fetched, advances, requested, history, fileVer, resume>>

TrainDiscStep ==
    /\ At("t_d_step")
    /\ Drive(DiscStep(session), DiscStep(loaded))
    /\ UNCHANGED <<shift, ops, disk, clock, fetched, advances, requested, history, fileVer, resume>>

TrainGenZeroGrad ==
    /\ At("t_g_zero")
    /\ Drive(GenZeroGrad(session), GenZeroGrad(loaded))
    /\ UNCHANGED <<shift, ops, disk, clock, fetched, advances, requested, history, fileVer, resume>>

TrainFillInverted ==
    /\ At("t_fill_inv")
    /\ Drive(FillLabel(session, REAL_LABEL, "t_err_gen"),
              FillLabel(loaded, REAL_LABEL, "t_err_gen"))
    /\ UNCHANGED <<shift, ops, disk, clock, fetched, advances, requested, history, fileVer, resume>>

TrainErrGenerator ==
    /\ At("t_err_gen")
    /\ Drive(ErrGenerator(session), ErrGenerator(loaded))
    /\ UNCHANGED <<shift, ops, disk, clock, fetched, advances, requested, history, fileVer, resume>>

TrainGenStep ==
    /\ At("t_g_step")
    /\ Drive(GenStep(session), GenStep(loaded))
    /\ UNCHANGED <<shift, ops, disk, clock, fetched, advances, requested, history, fileVer, resume>>

TrainLogStep ==
    /\ At("t_log")
    /\ Drive(TrainLog(session), TrainLog(loaded))
    /\ UNCHANGED <<shift, ops, disk, clock, fetched, advances, requested, history, fileVer, resume>>

\* validate(dataLoader) is called
Validate ==
    /\ Call
    /\ Drive(Enter(session, "validate", "v_next"),
              Enter(loaded, "validate", "v_next"))
    /\ UNCHANGED <<shift, disk, clock, fetched, advances, requested, history, fileVer, resume>>

ValidateNextBatch ==
    /\ At("v_next")
    /\ session.frame.i + 1 < MaxBatches
    /\ \E b \in BatchSizes, fresh \in BOOLEAN :
        /\ fresh \/ session.frame.mask # NoMask
        /\ Drive(NextBatch(session, b, fresh, "v_fill_real"),
              NextBatch(loaded, b, fresh, "v_fill_real"))
    /\ UNCHANGED <<shift, ops, disk, clock, fetched, advances, requested, history, fileVer, resume>>

ValidateReturn ==
    /\ At("v_next")
    /\ Drive(Return(session), Return(loaded))
    /\ UNCHANGED <<shift, ops, disk, clock, fetched, advances, requested, history, fileVer, resume>>

ValidateFillReal ==
    /\ At("v_fill_real")
    /\ Drive(FillLabel(session, REAL_LABEL, "v_disc"),
              FillLabel(loaded, REAL_LABEL, "v_disc"))
    /\ UNCHANGED <<shift, ops, disk, clock, fetched, advances, requested, history, fileVer, resume>>

ValidateDisc ==
    /\ At("v_disc")
    /\ Drive(ValDisc(session), ValDisc(loaded))
    /\ UNCHANGED <<shift, ops, disk, clock, fetched, advances, requested, history, fileVer, resume>>

ValidateFillFake ==
    /\ At("v_fill_fake")
    /\ Drive(FillLabel(session, FAKE_LABEL, "v_gen"),
              FillLabel(loaded, FAKE_LABEL, "v_gen"))
    /\ UNCHANGED <<shift, ops, disk, clock, fetched, advances, requested, history, fileVer, resume>>

ValidateGen ==
    /\ At("v_gen")
    /\ Drive(ValGen(session), ValGen(loaded))
    /\ UNCHANGED <<shift, ops, disk, clock, fetched, advances, requested, history, fileVer, resume>>

ValidateLogStep ==
    /\ At("v_log")
    /\ Drive(ValLog(session), ValLog(loaded))
    /\ UNCHANGED <<shift, ops, disk, clock, fetched, advances, requested, history, fileVer, resume>>

\* setMode(mode)
SetMode ==
    /\ Call
    /\ \E mode \in Modes :
        /\ Drive(setMode(session, mode),
              setMode(loaded, mode))
        /\ requested' = mode
    /\ resume' = IF resume.follow THEN [resume EXCEPT !.modeSet = TRUE] ELSE resume
    /\ UNCHANGED <<shift, disk, clock, fetched, advances, history, fileVer>>

\* advanceEpoch()
AdvanceEpoch ==
    /\ Call
    /\ Drive(advanceEpoch(session), advanceEpoch(loaded))
    /\ advances' = advances + 1
    /\ UNCHANGED <<shift, disk, clock, fetched, requested, history, fileVer, resume>>

\* checkpoint(model_name) is called: the time is read and the sink flushed
Checkpoint ==
    /\ Call
    /\ \E model_name \in ModelNames :
        Drive(checkpoint(session, model_name, clock),
              checkpoint(loaded, model_name, clock))
    /\ UNCHANGED <<shift, disk, clock, fetched, advances, requested, history, fileVer, resume>>

\* torch.save writes the archive under the name and the second, and
\* checkpoint() returns
CheckpointSave ==
    /\ At("c_save")
    /\ LET path == checkpointFile(session)
           written == Save(disk, path, Archive(session))
       IN  /\ Drive(Return(session), Return(loaded))
           /\ disk' = IF resume.follow
                      THEN Save(written, checkpointFile(loaded), Archive(loaded))
                      ELSE written
           /\ history' = Append(history, Return(session))
           /\ fileVer' = (path :> (Len(history) + 1)) @@ fileVer
    /\ UNCHANGED <<shift, ops, clock, fetched, advances, requested, resume>>

\* Trainer.loadFrom(model_name) of a file on the disk
LoadFrom ==
    /\ Call
    /\ \E path \in DOMAIN disk :
        /\ loaded' = loadFrom(disk[path])
        /\ resume' = [NoResume EXCEPT !.ver = fileVer[path]]
    /\ UNCHANGED <<shift, session, disk, clock, fetched, advances, requested, history, fileVer>>

\* Trainer.loadFrom(model_name) of the file the session has just written, the
\* session being as checkpoint() left it; from here on the caller continues
\* both sessions with the same operations
Resume ==
    /\ Idle
    /\ ~resume.follow
    /\ \E path \in DOMAIN disk :
        /\ history[fileVer[path]] = session
        /\ loaded' = loadFrom(disk[path])
        /\ resume' = [ver |-> fileVer[path], follow |-> TRUE, modeSet |-> FALSE,
                      base |-> Len(session.Summary.records)]
    /\ UNCHANGED <<shift, ops, session, disk, clock, fetched, advances, requested, history, fileVer>>

\* A second of wall-clock time passes.  Only checkpoint() reads the clock, so
\* time is let pass between two operations, and only to tell the second of one
\* checkpoint from the second of the next.
Tick ==
    /\ Idle
    /\ clock < Len(history)
    /\ clock' = clock + 1
    /\ UNCHANGED <<shift, ops, session, loaded, disk, fetched, advances, requested, history, fileVer, resume>>

Next ==
    \/ Train \/ TrainNextBatch \/ TrainReturn
    \/ TrainDiscZeroGrad \/ TrainFillReal \/ TrainErrReal
    \/ TrainFillFake \/ TrainErrFake \/ TrainDiscStep
    \/ TrainGenZeroGrad \/ TrainFillInverted \/ TrainErrGenerator
    \/ TrainGenStep \/ TrainLogStep
    \/ Validate \/ ValidateNextBatch \/ ValidateReturn
    \/ ValidateFillReal \/ ValidateDisc \/ ValidateFillFake
    \/ ValidateGen \/ ValidateLogStep
    \/ SetMode \/ AdvanceEpoch \/ Checkpoint \/ CheckpointSave \/ LoadFrom \/ Tick

Spec == Init /\ [][Next]_vars

\* the runs in which a session is checkpointed, loaded again and continued
\* side by side with the session that wrote the checkpoint
NextResume ==
    \/ Train \/ TrainNextBatch \/ TrainReturn
    \/ TrainDiscZeroGrad \/ TrainFillReal \/ TrainErrReal
    \/ TrainFillFake \/ TrainErrFake \/ TrainDiscStep
    \/ TrainGenZeroGrad \/ TrainFillInverted \/ TrainErrGenerator
    \/ TrainGenStep \/ TrainLogStep
    \/ Validate \/ ValidateNextBatch \/ ValidateReturn
    \/ ValidateFillReal \/ ValidateDisc \/ ValidateFillFake
    \/ ValidateGen \/ ValidateLogStep
    \/ SetMode \/ AdvanceEpoch \/ Checkpoint \/ CheckpointSave \/ Resume \/ Tick

SpecResume == Init /\ [][NextResume]_vars

\* shiftTarget called on its own, on any target and the mask built for it
InitShift ==
    /\ InitSession
    /\ shift \in {GivenShift(target) : target \in Targets}

\* shiftTarget(target, mask) is called
ShiftTarget ==
    /\ shift.calls < MaxShifts
    /\ shift' = CallShiftTarget(shift)
    /\ UNCHANGED <<session, loaded, disk, clock, ops, fetched, advances,
                   requested, history, fileVer, resume>>

\* the caller builds a new mask object for the target
RebuildMask ==
    /\ shift.passes > 0
    /\ shift.calls < MaxShifts
    /\ shift' = [shift EXCEPT !.mask = MaskFor(Len(shift.target)), !.passes = 0]
    /\ UNCHANGED <<session, loaded, disk, clock, ops, fetched, advances,
                   requested, history, fileVer, resume>>

NextShift == ShiftTarget \/ RebuildMask

SpecShift == InitShift /\ [][NextShift]_vars

\* ------------------------------------------------------------------------
\* Properties
\* ------------------------------------------------------------------------
Records == session.Summary.records
\* a batch has been unpacked and its logging block has not finished
InBatch(s) == s.frame.op # "none" /\ s.frame.pc \notin {"t_next", "v_next"}
\* index of the last batch of the current call whose logging block finished
LastDone(s) == IF InBatch(s) THEN s.frame.i - 1 ELSE s.frame.i
TagOf(op) == IF op = "train" THEN "train" ELSE "validation"

\* C1: GlobalStep is the number of batches train() has processed: one per
\* training batch whether or not it logged, none per validation batch, never
\* reset by a new call.  `fetched` counts the batches train() has unpacked;
\* the one being processed, or the one an error ended, is not yet counted.
C1_GlobalStepCountsTrainBatches ==
    session.GlobalStep =
        fetched - (IF session.frame.op = "train" /\ InBatch(session) THEN 1 ELSE 0)

\* a second train() call has finished a batch, after a validation pass and
\* after a training batch that did not log
C1_Witness ==
    /\ session.frame.op = "train"
    /\ session.frame.pc = "t_next"
    /\ session.frame.i = 0
    /\ session.calls = 3
    /\ session.GlobalStep = 3
    /\ \E n \in 1..Len(Records) : Records[n].tag = "validation"

\* C2: in train() and validate(), the batch with zero-based index k of the
\* current call has emitted a record (exactly one) iff its logging block has
\* run and k mod LOG_FREQUENCY = 0, whatever GlobalStep is; a fresh session
\* that trains one epoch of n batches ends with GlobalStep = n and Epoch 0.
C2_LogsEveryNthBatchOfTheCall ==
    /\ session.frame.op \in {"train", "validate"} =>
        \A k \in 0..(MaxBatches - 1) :
            LET emitted == {n \in 1..Len(Records) :
                                /\ Records[n].call = session.calls
                                /\ Records[n].index = k}
            IN  /\ Cardinality(emitted) =
                        (IF k <= LastDone(session) /\ k % LOG_FREQUENCY = 0 THEN 1 ELSE 0)
                /\ \A n \in emitted : Records[n].tag = TagOf(session.frame.op)
    /\ (ops = 1 /\ session.frame.op = "train" /\ session.frame.pc = "t_next") =>
        /\ session.GlobalStep = session.frame.i + 1
        /\ session.Epoch = 0
        /\ Len(Records) = Cardinality({k \in 0..session.frame.i : k % LOG_FREQUENCY = 0})

\* a validation pass after a training epoch: both logged their batches 0 and
\* LOG_FREQUENCY and nothing between
C2_Witness ==
    /\ session.frame.op = "validate"
    /\ session.frame.pc = "v_next"
    /\ session.frame.i = LOG_FREQUENCY
    /\ session.GlobalStep = LOG_FREQUENCY + 1
    /\ Len(Records) = 4

\* the fields validate() must leave alone
Trained(s) ==
    <<s.GlobalStep, s.Epoch, s.Generator, s.Discriminator,
      s.GeneratorOptimiser, s.DiscriminatorOptimiser>>

\* C3: no step of validate(), from the call to the return, changes
\* GlobalStep, Epoch, the parameters or gradients of either network or the
\* state of either optimiser.
C3_ValidateChangesNoTrainedState ==
    [][(session.frame.op = "validate" \/ session'.frame.op = "validate")
            => Trained(session') = Trained(session)]_vars

\* a validation pass over three batches of a session that has trained
C3_Witness ==
    /\ session.frame.op = "validate"
    /\ session.frame.pc = "v_next"
    /\ session.frame.i = 2
    /\ session.GlobalStep > 0
    /\ session.Discriminator.grad # {}

\* what a checkpoint stores of a session
Persisted(s) ==
    <<s.LogName, s.Epoch, s.GlobalStep, s.Generator.params, s.Discriminator.params,
      s.GeneratorOptimiser, s.DiscriminatorOptimiser, s.Criterion>>

\* C4: a session read back by loadFrom has the log identifier, Epoch,
\* GlobalStep, network parameters, optimiser states and criterion state that
\* the writing session had when checkpoint() wrote the file.
C4_CheckpointRoundTrip ==
    loaded # NoSession => Persisted(loaded) = Persisted(history[resume.ver])

\* a session that had trained two batches was checkpointed and read back
C4_Witness ==
    /\ loaded # NoSession
    /\ loaded.GlobalStep = 2
    /\ loaded.Generator.params = 2
    /\ loaded.DiscriminatorOptimiser.steps = 2

\* C5: every checkpoint() call writes a file no other call writes: the file
\* of each call is on the disk, written by that call and holding what it saved.
C5_EveryCheckpointKeepsItsFile ==
    \A n \in 1..Len(history) :
        \E path \in DOMAIN disk :
            /\ fileVer[path] = n
            /\ disk[path] = Archive(history[n])

StepKeys(records) ==
    [n \in 1..Len(records) |-> <<records[n].tag, records[n].step, records[n].index>>]
Mode(s) == <<s.Generator.training, s.Discriminator.training>>
Equivalent(a, b, baseOfB) ==
    /\ a.Epoch = b.Epoch
    /\ a.GlobalStep = b.GlobalStep
    /\ StepKeys(a.Summary.records) =
            StepKeys(SubSeq(b.Summary.records, baseOfB + 1, Len(b.Summary.records)))

\* C6 as claimed: a loaded session continued with the operations of the
\* session that wrote the checkpoint has, at every step, the same Epoch,
\* GlobalStep, metric step keys and network mode.
C6_ResumedSessionIsEquivalent ==
    resume.follow =>
        /\ Equivalent(loaded, session, resume.base)
        /\ Mode(loaded) = Mode(session)

\* C6 as amended: the same Epoch, GlobalStep and metric step keys at every
\* step; the loaded session's networks are in train mode, as constructed,
\* until setMode is called, and in the writer's mode from then on.
C6_ResumedSessionIsEquivalentButForMode ==
    resume.follow =>
        /\ Equivalent(loaded, session, resume.base)
        /\ Mode(loaded) = (IF resume.modeSet THEN Mode(session) ELSE <<TRUE, TRUE>>)

\* a session checkpointed in inference mode, loaded, and both trained on: the
\* loaded one has logged and is in train mode, the writer is not
C6_Witness ==
    /\ resume.follow
    /\ loaded.GlobalStep > history[resume.ver].GlobalStep
    /\ loaded.Summary.records # <<>>
    /\ Mode(loaded) # Mode(session)

\* C7: both networks are always in the same mode, the one last asked of
\* setMode (train mode, as constructed, before the first call); no other
\* operation changes it.
C7_NetworksShareTheRequestedMode ==
    /\ session.Generator.training = session.Discriminator.training
    /\ requested = TRAIN => session.Generator.training
    /\ requested = INFERENCE => ~session.Generator.training
    /\ requested = -1 => session.Generator.training

\* train() is about to step the generator's optimiser, in inference mode
C7_Witness ==
    /\ requested = INFERENCE
    /\ session.frame.pc = "t_g_step"
    /\ ~session.Discriminator.training

\* C8: Epoch is the number of advanceEpoch() calls; such a call adds one to
\* Epoch and changes nothing else in the session or on the disk, and no other
\* step changes Epoch.
C8_AdvanceEpochOnlyCountsEpochs ==
    /\ [](session.Epoch = advances)
    /\ [][/\ advances' # advances =>
                /\ session' = [session EXCEPT !.Epoch = @ + 1]
                /\ disk' = disk
          /\ advances' = advances => session'.Epoch = session.Epoch]_vars

\* two epochs advanced on a session that has trained and logged
C8_Witness ==
    /\ advances = 2
    /\ session.GlobalStep > 0
    /\ Records # <<>>
    /\ session.Label[1] = REAL_LABEL

FillPcs == {"t_fill_real", "t_fill_fake", "t_fill_inv", "v_fill_real", "v_fill_fake"}
FillValueAt(pc) == IF pc \in {"t_fill_fake", "v_fill_fake"} THEN FAKE_LABEL ELSE REAL_LABEL

\* C9: the Label buffer keeps the length BATCH_SIZE, and a fill for a batch of
\* b <= BATCH_SIZE items sets its first b entries to the constant and leaves
\* the others as they were.
C9_FillWritesThePrefixOnly ==
    /\ [](Len(session.Label) = BATCH_SIZE)
    /\ [][(session.frame.pc \in FillPcs /\ session.frame.batchSize <= BATCH_SIZE) =>
            \A k \in 1..BATCH_SIZE :
                session'.Label[k] =
                    IF k <= session.frame.batchSize
                    THEN FillValueAt(session.frame.pc)
                    ELSE session.Label[k]]_vars

\* a FAKE fill for a batch smaller than the buffer, after a larger batch had
\* left REAL in the whole buffer
C9_Witness ==
    /\ session.frame.pc = "t_err_fake"
    /\ session.frame.batchSize < BATCH_SIZE
    /\ session.Label[1] = FAKE_LABEL
    /\ session.Label[BATCH_SIZE] = REAL_LABEL

C11_ShiftTargetPairsEachStepWithTheNextWindow ==
    /\ [](shift.calls > 0 /\ Len(shift.target) > windowSkip =>
            LET T == Len(shift.target)
                W == windowSkip
            IN  /\ Len(shift.input) = T - W
                /\ Len(shift.expected) = T - W
                /\ \A t \in 1..(T - W) :
                        /\ shift.input[t] = shift.target[t]
                        /\ shift.expected[t] = shift.target[t + W])
    /\ [][shift'.target = shift.target]_vars

\* shiftTarget has been called on a target of the longest time length whose
\* steps differ, so that the input and the expected output differ too
C11_Witness ==
    /\ shift.calls = 1
    /\ Len(shift.target) = TimeLen
    /\ Len(shift.input) = TimeLen - windowSkip
    /\ shift.input # shift.expected
    /\ shift.target[1] # shift.target[2]

\* C12: a mask whose time dimensions are the target's time length T > W has,
\* after one shiftTarget call, T - W padding columns and a square attention
\* mask of side T - W, W being the window the target was shortened by: the
\* time dimensions of the mask are the time length of the returned input.
C12_MaskShrinksWithTheTarget ==
    (shift.passes = 1 /\ Len(shift.target) > windowSkip) =>
        LET T == Len(shift.target)
            W == windowSkip
        IN  /\ shift.mask.TargetPadding = T - W
            /\ shift.mask.TargetAttention = <<T - W, T - W>>
            /\ shift.mask.TargetPadding = Len(shift.input)
            /\ shift.mask.TargetAttention[1] = Len(shift.input)

\* a mask built anew for a target of the longest time length, after a first
\* call had sliced the one before it, has been through shiftTarget once
C12_Witness ==
    /\ shift.calls = 2
    /\ shift.passes = 1
    /\ Len(shift.target) = TimeLen
    /\ shift.mask = MaskFor(TimeLen - windowSkip)

\* the statements of train()'s loop body, in program order
TrainOrder ==
    <<"t_d_zero", "t_fill_real", "t_err_real", "t_fill_fake", "t_err_fake",
      "t_d_step", "t_g_zero", "t_fill_inv", "t_err_gen", "t_g_step", "t_log">>
Pos(pc) ==
    IF \E k \in 1..Len(TrainOrder) : TrainOrder[k] = pc
    THEN CHOOSE k \in 1..Len(TrainOrder) : TrainOrder[k] = pc
    ELSE 0
\* train() is in a batch and has executed the statement at pc
Past(s, pc) == s.frame.op = "train" /\ Pos(s.frame.pc) > Pos(pc)
Count(b) == IF b THEN 1 ELSE 0

\* C13: each training batch gets one discriminator step and one generator
\* step, and the effects of a batch appear in program order: the real loss
\* (label REAL) and the fake loss (label FAKE) are back-propagated through
\* the discriminator as it is before its step, the generator loss (label REAL)
\* through the discriminator as it is after its step, the generator's step
\* comes last; a batch is taken only when the one before it is finished.
C13_OneDiscriminatorThenOneGeneratorStepPerBatch ==
    /\ [](LET s == session
              n == s.GlobalStep
          IN  /\ s.DiscriminatorOptimiser.steps = n + Count(Past(s, "t_d_step"))
              /\ s.Discriminator.params = s.DiscriminatorOptimiser.steps
              /\ s.GeneratorOptimiser.steps = n + Count(Past(s, "t_g_step"))
              /\ s.Generator.params = s.GeneratorOptimiser.steps
              /\ Past(s, "t_err_real") =>
                    /\ s.frame.err_real = <<"D(x)", REAL_LABEL>>
                    /\ [loss |-> "err_real", step |-> n, through |-> n]
                            \in s.Discriminator.grad
              /\ Past(s, "t_err_fake") =>
                    /\ s.frame.err_fake = <<"D(G(z1))", FAKE_LABEL>>
                    /\ [loss |-> "err_fake", step |-> n, through |-> n]
                            \in s.Discriminator.grad
              /\ Past(s, "t_err_gen") =>
                    /\ s.frame.err_generator = <<"D(G(z2))", REAL_LABEL>>
                    /\ [loss |-> "err_generator", step |-> n, through |-> n + 1]
                            \in s.Generator.grad)
    /\ [][/\ fetched' # fetched =>
                /\ session.DiscriminatorOptimiser.steps = fetched
                /\ session.GeneratorOptimiser.steps = fetched
                /\ session'.frame.i = session.frame.i + 1
          /\ (session.frame.op = "train" /\ session'.Generator # session.Generator) =>
                session.DiscriminatorOptimiser.steps = session.GlobalStep + 1]_vars

\* the second batch of a train() call has had both its steps
C13_Witness ==
    /\ session.frame.op = "train"
    /\ session.frame.pc = "t_log"
    /\ session.frame.i = 1
    /\ session.DiscriminatorOptimiser.steps = 2
    /\ session.GeneratorOptimiser.steps = 2

\* the gradient a backward pass of the batch in hand deposits
DepositOf(s, lossName, through) ==
    [loss |-> lossName, step |-> s.GlobalStep, through |-> through]

\* C14: when train() steps the discriminator's optimiser, the discriminator's
\* gradient is exactly what the real-loss and the fake-loss backward of the
\* batch in hand deposited: what the generator-loss backward of the batch
\* before left in it has been cleared.
C14_DiscriminatorStepsOnItsOwnLossesOnly ==
    session.frame.pc = "t_d_step" =>
        session.Discriminator.grad =
            {DepositOf(session, "err_real", session.GlobalStep),
             DepositOf(session, "err_fake", session.GlobalStep)}

\* the discriminator step of the second batch of a second train() call; the
\* first call ended with a generator-loss backward
C14_Witness ==
    /\ session.frame.pc = "t_d_step"
    /\ session.calls = 2
    /\ session.frame.i = 1
    /\ session.GlobalStep >= 2

\* the statements of the discriminator phase of a batch
DiscriminatorPhase ==
    {"t_d_zero", "t_fill_real", "t_err_real", "t_fill_fake", "t_err_fake", "t_d_step"}

\* C15: no statement of the discriminator phase of a training batch changes
\* the generator's gradient (nor its parameters), and when train() steps the
\* generator's optimiser the generator's gradient is exactly what the
\* generator-loss backward of the batch in hand deposited, taken through the
\* discriminator as its step of this batch left it.
C15_GeneratorStepsOnItsOwnLossOnly ==
    /\ [](session.frame.pc = "t_g_step" =>
            /\ session.Discriminator.params = session.GlobalStep + 1
            /\ session.Generator.grad =
                    {DepositOf(session, "err_generator", session.Discriminator.params)})
    /\ [][session.frame.pc \in DiscriminatorPhase =>
                session'.Generator = session.Generator]_vars

\* the generator step of a second batch: the generator held the gradient of
\* the first batch all through the discriminator phase of the second
C15_Witness ==
    /\ session.frame.pc = "t_g_step"
    /\ session.frame.i = 1
    /\ session.Generator.params = 1
    /\ session.Generator.grad # {}

\* C16: the losses validate() reports are defined as train() defines its
\* own: Loss(D) is the criterion on the real score against REAL plus the
\* criterion on the generated score against FAKE, Loss(G) the criterion on
\* the generated score against REAL.
C16_ValidationLossesAreTheTrainingLosses ==
    \A n \in 1..Len(Records) :
        Records[n].tag = "validation" =>
            /\ Records[n].scalars["Loss(D)"] =
                    {<<"D(x)", REAL_LABEL>>, <<"D(G(z))", FAKE_LABEL>>}
            /\ Records[n].scalars["Loss(G)"] = {<<"D(G(z))", REAL_LABEL>>}

\* C17: a record is keyed by GlobalStep as it is when the record is emitted.
\* For a training record that is the number of training batches finished
\* before its batch, the step being counted after the logging, so the keys of
\* the training records increase strictly over the session; the validation
\* records of one validate() call all carry the GlobalStep of that call.
C17_RecordsAreKeyedByGlobalStep ==
    /\ [](/\ \A m, n \in 1..Len(Records) :
                /\ (m < n /\ Records[m].tag = "train" /\ Records[n].tag = "train")
                        => Records[m].step < Records[n].step
                /\ (Records[m].tag = "validation" /\ Records[n].tag = "validation"
                        /\ Records[m].call = Records[n].call)
                        => Records[m].step = Records[n].step
          /\ session.frame.op = "validate" =>
                \A n \in 1..Len(Records) :
                    Records[n].call = session.calls => Records[n].step = session.GlobalStep)
    /\ [][Len(session'.Summary.records) > Len(Records) =>
            LET emitted == session'.Summary.records[Len(Records) + 1]
            IN  /\ emitted.step = session.GlobalStep
                /\ emitted.tag = "train" =>
                        /\ emitted.step = fetched - 1
                        /\ session'.GlobalStep = emitted.step + 1
                /\ emitted.tag = "validation" =>
                        session'.GlobalStep = emitted.step]_vars

\* a training epoch, a validation pass that logged twice, and a second
\* training epoch that has logged: the step keys run 0, 1, 1, 1
C17_Witness ==
    /\ Len(Records) = 4
    /\ Records[1].tag = "train"
    /\ Records[2].tag = "validation"
    /\ Records[3].tag = "validation"
    /\ Records[4].tag = "train"
    /\ Records[4].index = 0
    /\ Records[4].step = 1

Max(a, b) == IF a >= b THEN a ELSE b

\* C18: every shiftTarget call on one mask object cuts a further window off
\* its padding and attention masks (down to empty), while the pair returned
\* for the same target is the same at every call: a mask object handed in a
\* second time, as when the batch source yields it again, no longer has the
\* time length of the shifted input.
C18_MaskShrinksAtEveryCallTheTargetPairDoesNot ==
    /\ [](LET T == Len(shift.target)
              left == Max(0, T - shift.passes * sequenceSkip)
          IN  /\ shift.mask = MaskFor(left)
              /\ shift.calls > 0 =>
                    /\ shift.input = DropLast(shift.target, windowSkip)
                    /\ shift.expected = DropFirst(shift.target, windowSkip)
              /\ (shift.passes >= 2 /\ T > windowSkip) =>
                    /\ shift.mask.TargetPadding # Len(shift.input)
                    /\ shift.mask.TargetAttention[1] # Len(shift.input))
    /\ [][shift.calls > 0 =>
            /\ shift'.input = shift.input
            /\ shift'.expected = shift.expected
            /\ shift'.passes > shift.passes =>
                    shift'.mask.TargetPadding =
                        Max(0, shift.mask.TargetPadding - sequenceSkip)]_vars

\* one mask object has been through shiftTarget twice with a target of the
\* longest time length: it has lost two windows and is not empty yet
C18_Witness ==
    /\ shift.passes = 2
    /\ Len(shift.target) = TimeLen
    /\ shift.mask.TargetPadding = TimeLen - 2 * sequenceSkip
    /\ shift.mask.TargetPadding > 0
    /\ Len(shift.input) = TimeLen - windowSkip

\* what checkpoint() must leave alone
Kept(s) ==
    <<s.LogName, s.Epoch, s.GlobalStep, s.Generator, s.Discriminator,
      s.GeneratorOptimiser, s.DiscriminatorOptimiser, s.Criterion, s.Label,
      s.Summary.records, s.calls>>

\* C19: checkpoint() changes nothing of the session but the flushed status
\* of the metrics sink, and nothing else but the files on the disk: Epoch,
\* GlobalStep, networks, optimisers, label buffer, mode and records are as
\* they were; the sink is flushed when the archive is written; the archive
\* holds the session's values as they were at the call.  The session that
\* goes on after the call is the session of before, flushed.
C19_CheckpointOnlyFlushesAndWrites ==
    /\ [](session.frame.pc = "c_save" => session.Summary.flushed)
    /\ [][/\ session'.frame.pc = "c_save" =>
                /\ Kept(session') = Kept(session)
                /\ disk' = disk
          /\ session.frame.pc = "c_save" =>
                /\ session.Summary.flushed
                /\ session' = [session EXCEPT !.frame = IdleFrame]
                /\ \E path \in DOMAIN disk' :
                        /\ disk' = Save(disk, path, disk'[path])
                        /\ disk'[path] = Archive(session)
                        /\ disk'[path].epoch = session.Epoch
                        /\ disk'[path].global_step = session.GlobalStep
                        /\ disk'[path].generator.params = session.Generator.params
                        /\ disk'[path].discriminator.params = session.Discriminator.params]_vars

\* a session that has trained and logged has been checkpointed: the file is
\* written with its step count, the sink that held a record is flushed
C19_Witness ==
    /\ disk # <<>>
    /\ Idle
    /\ ops = MaxOps
    /\ session.GlobalStep > 0
    /\ Records # <<>>
    /\ session.Summary.flushed
    /\ \E path \in DOMAIN disk : disk[path].global_step = session.GlobalStep

====
